---- MODULE Spec2Model ----
(***************************************************************************)
(* A model of src/01_Home.py: the chunker get_chunks, the delimiter        *)
(* cleanup it runs over every chunk, and the Streamlit session driven by   *)
(* main (the Upload and the Submit handlers).                              *)
(*                                                                         *)
(* Python strings are sequences of one-character strings, so that          *)
(* re.sub, str.lower, str.startswith and the 'in' substring test are       *)
(* computed, not assumed.  Display names and page numbers are built with   *)
(* \o and ToString as the code builds them with + and str().               *)
(***************************************************************************)
EXTENDS Integers, Sequences, FiniteSets, TLC

VARIABLES
    file_input,      \* get_chunks: the list of uploaded file handles
    args,            \* get_chunks: the keyword arguments of the call
    file_index,      \* get_chunks: position of the for loop of line 25
    documents,       \* get_chunks: the main list of chunks (line 20)
    document_names,  \* get_chunks: the list of display names (line 21)
    readers,         \* get_chunks: the PdfReader of each file opened so far
    pc,              \* get_chunks: "loop", "returned" or the exception raised
    text,            \* cleanup: a chunk's page_content
    delimiters,      \* cleanup: delimiters_to_remove
    passes,          \* cleanup: how many cleanup passes ran over text
    session,         \* main: st.session_state (doc_names, vector_db, llm, qa_chain)
    requests,        \* main: requests sent to the hosted services, with the key used
    ui,              \* main: what the last rerun showed, and whether it raised
    uploads          \* main: number of Upload actions handled so far

vars == <<file_input, args, file_index, documents, document_names, readers, pc,
          text, delimiters, passes, session, requests, ui, uploads>>

chunkVars == <<file_input, args, file_index, documents, document_names, readers, pc>>
cleanVars == <<text, delimiters, passes>>
mainVars == <<session, requests, ui, uploads>>

(***************************************************************************)
(* Bounds of the model.                                                    *)
(***************************************************************************)
MaxFiles == 2
MaxPages == 5
MaxTrim == 1
MaxLen == 5
MaxUploads == 2
MaxBatch == 1
MaxPasses == 2
ChunkSize == 4

None == "None"

(***************************************************************************)
(* Strings.                                                                *)
(***************************************************************************)
UpperChars == <<"A","B","C","D","E","F","G","H","I","J","K","L","M",
                "N","O","P","Q","R","S","T","U","V","W","X","Y","Z">>
LowerChars == <<"a","b","c","d","e","f","g","h","i","j","k","l","m",
                "n","o","p","q","r","s","t","u","v","w","x","y","z">>

\* str.lower() of one character
LowerChar(c) ==
    IF \E i \in 1..Len(UpperChars) : UpperChars[i] = c
    THEN LowerChars[CHOOSE i \in 1..Len(UpperChars) : UpperChars[i] = c]
    ELSE c

\* key.lower()
Lower(s) == [i \in 1..Len(s) |-> LowerChar(s[i])]

\* s.startswith(prefix)
StartsWith(s, prefix) ==
    /\ Len(s) >= Len(prefix)
    /\ SubSeq(s, 1, Len(prefix)) = prefix

\* sub in s
Contains(s, sub) ==
    \E i \in 1..(Len(s) - Len(sub) + 1) : SubSeq(s, i, i + Len(sub) - 1) = sub

IsSpace(c) == c \in {" ", "\t", "\n"}

RECURSIVE LStrip(_)
LStrip(s) == IF s # <<>> /\ IsSpace(Head(s)) THEN LStrip(Tail(s)) ELSE s

RECURSIVE RStrip(_)
RStrip(s) ==
    IF s # <<>> /\ IsSpace(s[Len(s)]) THEN RStrip(SubSeq(s, 1, Len(s) - 1)) ELSE s

\* str.strip()
Strip(s) == RStrip(LStrip(s))

(***************************************************************************)
(* Delimiter cleanup, lines 66-70: re.sub(delimiter, ' ', page_content)    *)
(* for each delimiter in list order.  The delimiters are literal strings;  *)
(* re.sub replaces the leftmost non-overlapping occurrences.               *)
(***************************************************************************)
RECURSIVE ReSub(_, _)
ReSub(delimiter, s) ==
    IF s = <<>> THEN <<>>
    ELSE IF StartsWith(s, delimiter)
         THEN <<" ">> \o ReSub(delimiter, SubSeq(s, Len(delimiter) + 1, Len(s)))
         ELSE <<Head(s)>> \o ReSub(delimiter, Tail(s))

RECURSIVE Cleanup(_, _)
Cleanup(delims, s) ==
    IF delims = <<>> THEN s
    ELSE Cleanup(Tail(delims), ReSub(Head(delims), s))

\* the default of delimiters_to_remove, line 17
DefaultDelimiters == << <<"\t">>, <<"\n">>, <<" ", " ", " ">>, <<" ", " ">> >>

(***************************************************************************)
(* get_chunks, lines 12-75.                                                *)
(***************************************************************************)
TitleWord == <<"t", "i", "t", "l", "e">>

\* 'uploaded_file_' + str(file_index+1), line 28 (idx is the 0-based file_index)
Placeholder(idx) == "uploaded_file_" \o ToString(idx + 1)

\* the loop of lines 29-31 over reader.metadata.items(): the value of the last
\* key that contains 'title' replaces the title found so far
RECURSIVE ScanTitle(_, _)
ScanTitle(items, pdf_title) ==
    IF items = <<>> THEN pdf_title
    ELSE ScanTitle(Tail(items),
                   IF Contains(Lower(Head(items).key), TitleWord)
                   THEN Head(items).value
                   ELSE pdf_title)

\* lines 28-31 for a reader whose metadata is a dictionary
ResolveTitle(meta, idx) == ScanTitle(meta, Placeholder(idx))

\* lines 36-37: front times del reader.pages[0]; IndexError on an empty list
RECURSIVE DelFront(_, _)
DelFront(pages, n) ==
    IF n = 0 THEN [raised |-> FALSE, pages |-> pages]
    ELSE IF pages = <<>> THEN [raised |-> TRUE, pages |-> pages]
    ELSE DelFront(Tail(pages), n - 1)

\* lines 38-39: last times reader.pages.pop(); IndexError on an empty list
RECURSIVE PopLast(_, _)
PopLast(pages, n) ==
    IF n = 0 THEN [raised |-> FALSE, pages |-> pages]
    ELSE IF pages = <<>> THEN [raised |-> TRUE, pages |-> pages]
    ELSE PopLast(SubSeq(pages, 1, Len(pages) - 1), n - 1)

\* lines 35-39
RemovePages(pages, a) ==
    IF ~a.remove_pages THEN [raised |-> FALSE, pages |-> pages]
    ELSE LET f == DelFront(pages, a.front_pages_to_remove)
         IN  IF f.raised THEN f ELSE PopLast(f.pages, a.last_pages_to_remove)

\* splitter.split_text(page text), lines 47-51.  The library call is modelled by
\* its contract: the stripped text when it fits chunk_size, otherwise a cut at
\* the last space that keeps the piece within chunk_size (at the first space at
\* all for an oversized token), left to right, no empty chunk.  chunk_overlap is 0.
RECURSIVE SplitText(_, _)
SplitText(s, chunk_size) ==
    LET t == Strip(s)
        fit == {i \in 1..Len(t) : t[i] = " " /\ i <= chunk_size + 1}
        any == {i \in 1..Len(t) : t[i] = " "}
        Max(S) == CHOOSE x \in S : \A y \in S : y <= x
        Min(S) == CHOOSE x \in S : \A y \in S : x <= y
        cut == IF fit # {} THEN Max(fit) ELSE IF any # {} THEN Min(any) ELSE 0
    IN  IF t = <<>> THEN <<>>
        ELSE IF Len(t) <= chunk_size \/ cut = 0 THEN <<t>>
        ELSE <<Strip(SubSeq(t, 1, cut - 1))>>
             \o SplitText(SubSeq(t, cut + 1, Len(t)), chunk_size)

PageLabelZeroBased(page_number) == ToString(page_number)

\* str(page_number+1), lines 56 and 62 (page_number is enumerate's 0-based index)
PageLabel(page_number) == ToString(page_number + 1)

\* Document(page_content=..., metadata={'source': pdf_title, 'page': ...});
\* doc is history: the index of the file the chunk was cut from
Document(content, pdf_title, page_number, doc) ==
    [page_content |-> content, source |-> pdf_title,
     page |-> PageLabel(page_number), doc |-> doc]

\* lines 50-56: the chunks of the pages from position k on
RECURSIVE SplitPages(_, _, _, _, _)
SplitPages(pages, k, pdf_title, a, doc) ==
    IF k > Len(pages) THEN <<>>
    ELSE LET page_chunks == SplitText(pages[k], a.chunk_size)
         IN  [j \in 1..Len(page_chunks) |->
                 Document(page_chunks[j], pdf_title, k - 1, doc)]
             \o SplitPages(pages, k + 1, pdf_title, a, doc)

\* lines 67-70
CleanDocument(document, a) ==
    IF a.remove_leftover_delimiters
    THEN [j \in 1..Len(document) |->
             [document[j] EXCEPT !.page_content =
                 Cleanup(a.delimiters_to_remove, document[j].page_content)]]
    ELSE document

\* i += 1 on line 63: i is a local of get_chunks that is never assigned, so the
\* statement raises UnboundLocalError the first time the loop body runs
CounterRaises == TRUE

\* documents.extend(document), line 72
ExtendFront(all, document) == document \o all

Extend(all, document) == all \o document

\* The body of the loop of line 25 for one file: what it raised (None when it
\* ran through), the display name, reader.pages after trimming, and the chunks
\* handed to documents.extend.
FileBody(file, idx, a) ==
    IF ~file.meta.present
    THEN \* reader.metadata is None: None.items() raises
         [raised |-> "AttributeError", named |-> FALSE, name |-> None,
          trimmed |-> FALSE, pages |-> <<>>, chunks |-> <<>>]
    ELSE
    LET pdf_title == ResolveTitle(file.meta.items, idx)
        rp == RemovePages(file.pages, a)
    IN  IF rp.raised
        THEN [raised |-> "IndexError", named |-> TRUE, name |-> pdf_title,
              trimmed |-> FALSE, pages |-> <<>>, chunks |-> <<>>]
        ELSE IF a.use_splitter
        THEN [raised |-> None, named |-> TRUE, name |-> pdf_title,
              trimmed |-> TRUE, pages |-> rp.pages,
              chunks |-> CleanDocument(SplitPages(rp.pages, 1, pdf_title, a, idx), a)]
        ELSE IF rp.pages # <<>> /\ CounterRaises
        THEN [raised |-> "UnboundLocalError", named |-> TRUE, name |-> pdf_title,
              trimmed |-> TRUE, pages |-> rp.pages, chunks |-> <<>>]
        ELSE [raised |-> None, named |-> TRUE, name |-> pdf_title,
              trimmed |-> TRUE, pages |-> rp.pages,
              chunks |-> CleanDocument(
                  [k \in 1..Len(rp.pages) |->
                      Document(rp.pages[k], pdf_title, k - 1, idx)], a)]

(***************************************************************************)
(* The inputs of get_chunks.                                               *)
(***************************************************************************)
BlankPage == <<>>
ShortPage == <<"a", " ", " ", "b">>
LongPage == <<"a", "b", "\t", "a", " ", "a", "b", "\n", "b">>
Texts == <<ShortPage, LongPage, BlankPage>>

\* the text of the page at (1-based) position i of an uploaded file
PageText(i) == Texts[((i - 1) % Len(Texts)) + 1]

KeyTitle == <<"/", "T", "i", "t", "l", "e">>
KeyAuthor == <<"/", "A", "u", "t", "h", "o", "r">>

\* reader.metadata: None (present is FALSE) for a file without a document
\* information dictionary, otherwise its key/value pairs in order
Metas == { [present |-> FALSE, items |-> <<>>],
           [present |-> TRUE, items |-> << [key |-> KeyAuthor, value |-> "A"] >>],
           [present |-> TRUE, items |-> << [key |-> KeyAuthor, value |-> "A"],
                                           [key |-> KeyTitle, value |-> "T"] >>] }

Files == {[meta |-> m, pages |-> [i \in 1..n |-> PageText(i)]] :
              m \in Metas, n \in 0..MaxPages}

\* the uploaded file handles; what a file holds is known once PdfReader opens it
FileLists == {[i \in 1..n |-> i] : n \in 0..MaxFiles}

\* the page counts are read only when remove_pages is set; 0 stands for the
\* default None of a call that leaves them out
Trims == [remove_pages : {TRUE}, front_pages_to_remove : 0..MaxTrim,
          last_pages_to_remove : 0..MaxTrim]
         \cup [remove_pages : {FALSE}, front_pages_to_remove : {0},
               last_pages_to_remove : {0}]

Calls == {[use_splitter |-> u, remove_leftover_delimiters |-> d,
           remove_pages |-> t.remove_pages,
           chunk_size |-> ChunkSize,
           front_pages_to_remove |-> t.front_pages_to_remove,
           last_pages_to_remove |-> t.last_pages_to_remove,
           delimiters_to_remove |-> DefaultDelimiters] :
              u \in BOOLEAN, d \in BOOLEAN, t \in Trims}

IdleClean == text = <<>> /\ delimiters = <<>> /\ passes = 0
IdleMain ==
    /\ session = [doc_names |-> [present |-> FALSE]]
    /\ requests = {}
    /\ ui = [kind |-> "idle"]
    /\ uploads = 0
IdleChunks ==
    /\ file_input = <<>>
    /\ args = [use_splitter |-> TRUE]
    /\ file_index = 0
    /\ documents = <<>>
    /\ document_names = <<>>
    /\ readers = <<>>
    /\ pc = None

\* get_chunks has been called: lines 20-21
Init ==
    /\ file_input \in FileLists
    /\ args \in Calls
    /\ file_index = 0
    /\ documents = <<>>
    /\ document_names = <<>>
    /\ readers = <<>>
    /\ pc = "loop"
    /\ IdleClean
    /\ IdleMain

\* one iteration of the loop of line 25, lines 26-72: PdfReader(file) finds the
\* file's metadata and pages, and the body runs to its end or to an exception.
\* readers keeps, per file opened, what was read and reader.pages after lines 35-39.
ProcessFile ==
    /\ pc = "loop"
    /\ file_index < Len(file_input)
    /\ \E file \in Files :
         LET r == FileBody(file, file_index, args)
         IN  /\ document_names' = IF r.named THEN Append(document_names, r.name)
                                  ELSE document_names
             /\ readers' = Append(readers, [file |-> file, trimmed |-> r.trimmed,
                                            pages |-> r.pages])
             /\ documents' = Extend(documents, r.chunks)
             /\ pc' = IF r.raised = None THEN "loop" ELSE r.raised
             /\ file_index' = IF r.raised = None THEN file_index + 1 ELSE file_index
    /\ UNCHANGED <<file_input, args, cleanVars, mainVars>>

\* lines 74-75
Return ==
    /\ pc = "loop"
    /\ file_index = Len(file_input)
    /\ pc' = "returned"
    /\ UNCHANGED <<file_input, args, file_index, documents, document_names,
                   readers, cleanVars, mainVars>>

Next == ProcessFile \/ Return

Spec == Init /\ [][Next]_vars

(***************************************************************************)
(* Properties of get_chunks.                                               *)
(***************************************************************************)
Finished == pc # "loop"

\* the reader of the file a chunk was cut from
ReaderOf(c) == readers[c.doc + 1]

\* the number a page label spells, 0 when it spells none in range
PageNum(c) ==
    IF \E p \in 1..(MaxPages + 1) : ToString(p) = c.page
    THEN CHOOSE p \in 1..(MaxPages + 1) : ToString(p) = c.page
    ELSE 0

HasTitleKey(meta) ==
    \E k \in 1..Len(meta.items) : Contains(Lower(meta.items[k].key), TitleWord)

TitleValues(meta) ==
    {meta.items[k].value : k \in {i \in 1..Len(meta.items) :
                                     Contains(Lower(meta.items[i].key), TitleWord)}}

\* C1: every emitted chunk's page is a 1-based number p with
\* 1 <= p <= (number of pages of its document left after trimming).
C1_PageInRange ==
    \A j \in 1..Len(documents) :
        \E p \in 1..Len(ReaderOf(documents[j]).pages) :
            documents[j].page = ToString(p)

\* C1 witness: a returned call that trimmed pages, whose first file has a chunk
\* on its last remaining page and whose second file starts again at page 1.
C1_Witness ==
    /\ pc = "returned"
    /\ args.remove_pages /\ args.front_pages_to_remove > 0
    /\ Len(readers) = 2
    /\ Len(readers[1].pages) >= 2
    /\ \E j \in 1..Len(documents) :
          /\ documents[j].doc = 0
          /\ documents[j].page = ToString(Len(readers[1].pages))
    /\ \E j \in 1..Len(documents) :
          documents[j].doc = 1 /\ documents[j].page = "1"

\* C2: with remove_pages, front + last > page count of a document makes the call
\* fail with the out-of-range error (IndexError) and return nothing; front = last = 0
\* keeps every page in order.
C2_TrimBoundary ==
    (Finished /\ args.remove_pages) =>
        /\ (\E k \in 1..Len(readers) :
                args.front_pages_to_remove + args.last_pages_to_remove
                    > Len(readers[k].file.pages))
           => pc = "IndexError"
        /\ (args.front_pages_to_remove = 0 /\ args.last_pages_to_remove = 0)
           => \A k \in 1..Len(readers) :
                  readers[k].trimmed => readers[k].pages = readers[k].file.pages

\* C3: use_splitter = false and no trimming returns one chunk per page in page
\* order, each holding the page's text (as cleaned when cleanup is on); a 3-page
\* file without a title gives 3 chunks of source uploaded_file_1, pages 1, 2, 3.
C3_OneChunkPerPage ==
    (/\ Finished
     /\ ~args.use_splitter /\ ~args.remove_pages
     /\ Len(file_input) = 1 /\ Len(readers) = 1
     /\ readers[1].file.meta.present)
    => /\ pc = "returned"
       /\ Len(documents) = Len(readers[1].file.pages)
       /\ \A j \in 1..Len(documents) :
             /\ documents[j].page = ToString(j)
             /\ documents[j].source = document_names[1]
             /\ ~args.remove_leftover_delimiters
                => documents[j].page_content = readers[1].file.pages[j]
       /\ (Len(readers[1].file.pages) = 3 /\ ~HasTitleKey(readers[1].file.meta))
          => /\ Len(documents) = 3
             /\ \A j \in 1..3 : documents[j].source = "uploaded_file_1"

\* the call of the two-document scenario: a 5-page and a 2-page file, one page
\* removed at the front and one at the back
TwoDocumentCall ==
    /\ pc = "returned"
    /\ Len(readers) = 2
    /\ Len(readers[1].file.pages) = 5
    /\ Len(readers[2].file.pages) = 2
    /\ args.remove_pages
    /\ args.front_pages_to_remove = 1 /\ args.last_pages_to_remove = 1

\* chunks of file i precede chunks of file j for i < j; pages within a file
\* do not decrease
InDocumentOrder ==
    \A i, j \in 1..Len(documents) :
        i < j => /\ documents[i].doc <= documents[j].doc
                 /\ documents[i].doc = documents[j].doc
                    => PageNum(documents[i]) <= PageNum(documents[j])

\* C4 as stated: in the two-document call the second file is left untouched and
\* contributes its pages 1 to 2 after the first file's pages 1 to 3.
C4_SecondUntouched ==
    TwoDocumentCall =>
        /\ readers[2].pages = readers[2].file.pages
        /\ \A j \in 1..Len(documents) :
              PageNum(documents[j]) \in
                  (IF documents[j].doc = 0 THEN 1..3 ELSE 1..2)
        /\ InDocumentOrder

\* C4 amended: the page counts of a call trim every file of it, so in the
\* two-document call the first file gives pages 1 to 3 and the second, trimmed
\* to no page, gives no chunk; always, chunks keep file order and page order.
C4_TrimAllInOrder ==
    /\ InDocumentOrder
    /\ args.remove_pages =>
          \A k \in 1..Len(readers) :
              readers[k].trimmed =>
                  readers[k].pages =
                      SubSeq(readers[k].file.pages,
                             args.front_pages_to_remove + 1,
                             Len(readers[k].file.pages) - args.last_pages_to_remove)
    /\ TwoDocumentCall =>
          /\ \A j \in 1..Len(documents) :
                documents[j].doc = 0 /\ PageNum(documents[j]) \in 1..3
          /\ readers[2].pages = <<>>

\* C4 witness: the two-document call returned, with chunks of pages 1 and 3 of
\* the first file.
C4_Witness ==
    /\ TwoDocumentCall
    /\ \E i, j \in 1..Len(documents) :
          i < j /\ documents[i].page = "1" /\ documents[j].page = "3"

\* C8: the (source, page) metadata of a chunk names exactly one file of the
\* batch, also when two files resolve to the same title.
C8_MetadataNamesOneFile ==
    \A i, j \in 1..Len(documents) :
        (documents[i].source = documents[j].source
         /\ documents[i].page = documents[j].page)
        => documents[i].doc = documents[j].doc

\* C9: the file at ordinal N gets the value of a key containing 'title'
\* (any case) when there is one and 'uploaded_file_N' otherwise, also when the
\* file has no metadata; a returned call has one name per file, in order.
C9_DisplayNames ==
    /\ \A k \in 1..Len(readers) :
          /\ Len(document_names) >= k
          /\ IF readers[k].file.meta.present /\ HasTitleKey(readers[k].file.meta)
             THEN document_names[k] \in TitleValues(readers[k].file.meta)
             ELSE document_names[k] = "uploaded_file_" \o ToString(k)
    /\ pc = "returned" => Len(document_names) = Len(file_input)

(***************************************************************************)
(* The cleanup pass on its own: lines 67-70 applied to one chunk text,     *)
(* once and then again to its own output.  text keeps the successive       *)
(* values of page_content.                                                 *)
(***************************************************************************)
CleanChars == {"a", " ", "\t", "\n"}

CleanTexts == UNION {[1..n -> CleanChars] : n \in 0..MaxLen}

\* the configured lists: the default, and one that only removes line breaks and tabs
DelimiterLists == { DefaultDelimiters,
                    << <<"\n">>, <<"\t">> >> }

InitCleanup ==
    /\ \E t \in CleanTexts : text = <<t>>
    /\ delimiters \in DelimiterLists
    /\ passes = 0
    /\ IdleChunks
    /\ IdleMain

\* lines 69-70 for one chunk
CleanupPass ==
    /\ passes < MaxPasses
    /\ text' = Append(text, Cleanup(delimiters, text[Len(text)]))
    /\ passes' = passes + 1
    /\ UNCHANGED <<delimiters, chunkVars, mainVars>>

NextCleanup == CleanupPass

SpecCleanup == InitCleanup /\ [][NextCleanup]_vars

\* C5: a second cleanup pass over the output of the first changes nothing.
C5_CleanupIdempotent ==
    Len(text) >= 3 => text[3] = text[2]

(***************************************************************************)
(* main, lines 148-216: one action per rerun of the script in which a      *)
(* button was pressed.                                                     *)
(***************************************************************************)
KeyPrefix == <<"s", "k", "-">>

KeyEmpty == <<>>
KeyPlain == <<"a", "b", "c">>
KeyBad == <<"s", "k", "-", "x">>
KeyGood == <<"s", "k", "-", "g">>

\* what st.text_input may hold
Keys == {KeyEmpty, KeyPlain, KeyBad, KeyGood}

\* the hosted services answer only a request made with the account's key
Accepts(key) == key = KeyGood

\* openai_api_key.startswith('sk-'), lines 193 and 197
KeyFormatOk(key) == StartsWith(key, KeyPrefix)

\* get_chunks(documents) as the Upload handler calls it, line 169: all defaults
DefaultCall ==
    [use_splitter |-> TRUE, remove_leftover_delimiters |-> TRUE,
     remove_pages |-> FALSE, chunk_size |-> ChunkSize,
     front_pages_to_remove |-> 0, last_pages_to_remove |-> 0,
     delimiters_to_remove |-> DefaultDelimiters]

\* the loop of line 25 run to its end or to the first exception
RECURSIVE GetChunksLoop(_, _, _, _, _)
GetChunksLoop(files, idx, a, docs, names) ==
    IF idx = Len(files)
    THEN [raised |-> None, documents |-> docs, document_names |-> names]
    ELSE LET r == FileBody(files[idx + 1], idx, a)
         IN  IF r.raised # None
             THEN [raised |-> r.raised, documents |-> <<>>, document_names |-> <<>>]
             ELSE GetChunksLoop(files, idx + 1, a, Extend(docs, r.chunks),
                                Append(names, r.name))

GetChunks(files, a) == GetChunksLoop(files, 0, a, <<>>, <<>>)

\* the files of the uploader: with and without a title, and one without metadata
UploadFiles ==
    { [meta |-> [present |-> FALSE, items |-> <<>>], pages |-> <<ShortPage>>],
      [meta |-> [present |-> TRUE, items |-> << [key |-> KeyTitle, value |-> "T"] >>],
       pages |-> <<ShortPage>>],
      [meta |-> [present |-> TRUE, items |-> << [key |-> KeyAuthor, value |-> "A"] >>],
       pages |-> <<ShortPage, LongPage>>] }

\* st.file_uploader with at least one file (line 165 needs a non-empty list)
UploadBatches == UNION {[1..n -> UploadFiles] : n \in 1..MaxBatch}

\* docs, doc_names = get_chunks(documents), line 169, for every batch
UploadResult == [batch \in UploadBatches |-> GetChunks(batch, DefaultCall)]

NoDocNames == [present |-> FALSE, names |-> <<>>, batch |-> 0]
NoVectorDb == [present |-> FALSE, batch |-> 0, key |-> KeyEmpty]

ExceptCatchesValueError(exc) == exc = "ValueError"

\* except Exception, lines 172 and 203: every exception raised in the try body
ExceptCatches(exc) == TRUE

\* what a rerun shows: the status or message, the exception raised in the
\* handler (None when none), whether it left main, the service calls made
\* by the handler in order, and for an answer the batches behind it
Shown(kind, failure, calls, from, loaded) ==
    [kind |-> IF failure # None /\ ~ExceptCatches(failure) THEN "traceback" ELSE kind,
     failure |-> failure,
     escaped |-> failure # None /\ ~ExceptCatches(failure),
     calls |-> calls, answered_from |-> from, loaded |-> loaded]

\* the session after the first run of the script, lines 153-155
InitSession ==
    /\ session = [doc_names |-> NoDocNames, vector_db |-> NoVectorDb,
                  llm |-> FALSE, qa_chain |-> FALSE]
    /\ requests = {}
    /\ ui = Shown("idle", None, <<>>, 0, 0)
    /\ uploads = 0
    /\ IdleChunks
    /\ IdleClean

\* lines 165-176: the Upload button with files in the uploader.  get_chunks
\* assigns doc_names (line 169) before get_embeddings runs (line 171).
\* OpenAIEmbeddings refuses an empty key before any request; otherwise
\* FAISS.from_documents sends the chunks to the embedding service.
Upload(key, batch) ==
    /\ uploads < MaxUploads
    /\ uploads' = uploads + 1
    /\ LET g == UploadResult[batch]
           named == [present |-> TRUE, names |-> g.document_names,
                     batch |-> uploads + 1]
       IN  IF g.raised # None
           THEN /\ session' = session
                /\ requests' = requests
                /\ ui' = Shown("upload_error", g.raised, <<>>, 0, 0)
           ELSE IF key = KeyEmpty
           THEN /\ session' = [session EXCEPT !.doc_names = named]
                /\ requests' = requests
                /\ ui' = Shown("upload_error", "ValueError", <<>>, 0, 0)
           ELSE /\ requests' = requests \cup {[service |-> "embed", key |-> key]}
                /\ \E ok \in BOOLEAN :
                      /\ ok => Accepts(key)
                      /\ IF ok
                         THEN /\ session' =
                                   [session EXCEPT
                                       !.doc_names = named,
                                       !.vector_db = [present |-> TRUE,
                                                      batch |-> uploads + 1,
                                                      key |-> key]]
                              /\ ui' = Shown("upload_complete", None, <<"embed">>, 0, 0)
                         ELSE /\ session' = [session EXCEPT !.doc_names = named]
                              /\ ui' = Shown("upload_error", "IndexingError",
                                             <<"embed">>, 0, 0)
    /\ UNCHANGED <<chunkVars, cleanVars>>

\* lines 193-216: the Submit button.  Without the prefix only the warning of
\* line 194 shows.  Otherwise, in the try of line 199: temperature and
\* prompt_mode are bound only when doc_names is truthy (line 188); get_llm
\* catches a failing ChatOpenAI and then fails on 'return llm'; reading
\* st.session_state.vector_db fails when no index was stored; get_response
\* embeds the query with the key kept in the index and asks the chat model
\* with the key entered now.
Submit(key) ==
    /\ UNCHANGED <<uploads, chunkVars, cleanVars>>
    /\ IF ~KeyFormatOk(key)
       THEN /\ ui' = Shown("key_warning", None, <<>>, 0, 0)
            /\ UNCHANGED <<session, requests>>
       ELSE IF ~session.doc_names.present
       THEN /\ ui' = Shown("submit_error", "UnboundLocalError", <<>>, 0, 0)
            /\ UNCHANGED <<session, requests>>
       ELSE \E built \in BOOLEAN :
            IF ~built
            THEN /\ ui' = Shown("submit_error", "UnboundLocalError", <<>>, 0, 0)
                 /\ UNCHANGED <<session, requests>>
            ELSE IF ~session.vector_db.present
            THEN /\ session' = [session EXCEPT !.llm = TRUE]
                 /\ ui' = Shown("submit_error", "AttributeError", <<>>, 0, 0)
                 /\ UNCHANGED requests
            ELSE /\ session' = [session EXCEPT !.llm = TRUE, !.qa_chain = TRUE]
                 /\ \E embedded \in BOOLEAN :
                       /\ embedded => Accepts(session.vector_db.key)
                       /\ IF ~embedded
                          THEN /\ requests' = requests \cup
                                      {[service |-> "embed",
                                        key |-> session.vector_db.key]}
                               /\ ui' = Shown("submit_error", "GenerationError",
                                              <<"embed">>, 0, 0)
                          ELSE /\ requests' = requests \cup
                                      {[service |-> "embed",
                                        key |-> session.vector_db.key],
                                       [service |-> "chat", key |-> key]}
                               /\ \E answered \in BOOLEAN :
                                     /\ answered => Accepts(key)
                                     /\ ui' = IF answered
                                              THEN Shown("answer", None,
                                                         <<"embed", "chat">>,
                                                         session.vector_db.batch,
                                                         session.doc_names.batch)
                                              ELSE Shown("submit_error",
                                                         "GenerationError",
                                                         <<"embed", "chat">>, 0, 0)

NextSession ==
    \/ \E key \in Keys, batch \in UploadBatches : Upload(key, batch)
    \/ \E key \in Keys : Submit(key)

SpecSession == InitSession /\ [][NextSession]_vars

\* C6: no request reaches the hosted embedding or chat service with a key that
\* did not pass the 'sk-' format check.
C6_RequestsNeedCheckedKey ==
    \A r \in requests : KeyFormatOk(r.key)

\* C7: a failure raised while handling Upload or Submit is caught in the
\* handler and shown as an error state; it does not leave main, and the
\* handler calls no service a second time.
C7_FailuresCaught ==
    /\ ~ui.escaped
    /\ ui.failure # None => ui.kind \in {"upload_error", "submit_error"}
    /\ \A i, j \in 1..Len(ui.calls) : i # j => ui.calls[i] # ui.calls[j]

\* C7 witness: a Submit with names loaded but no index stored failed on the
\* missing vector_db and showed the error.
C7_Witness ==
    /\ ui.failure = "AttributeError"
    /\ ui.kind = "submit_error"
    /\ session.doc_names.present
    /\ ~session.vector_db.present

\* C10: the names shown as loaded and the stored index come from the same
\* upload, so an answer is never drawn from another batch than the one shown.
C10_NamesMatchIndex ==
    /\ session.doc_names.present =>
          /\ session.vector_db.present
          /\ session.vector_db.batch = session.doc_names.batch
    /\ ui.kind = "answer" => ui.answered_from = ui.loaded

====
